---- MODULE Spec2Model ----
(***************************************************************************)
(* Model of apidoc-plugin-jsonschema (src/index.js): the descriptor        *)
(* formatter createDocParameter, the schema walker iterateObjectReqursive, *)
(* the entry point extractArgumentsFromSchema, the loader safeLoadSchema   *)
(* and the apidoc hook parserSchemaElements.                               *)
(*                                                                         *)
(* JavaScript values are tagged records: t is the value's kind, v its      *)
(* payload.  Objects are sequences of <<key, value>> pairs in insertion    *)
(* order (the order for..in enumerates non-index keys), arrays are         *)
(* sequences of values.  Numbers are integers: the bounds used are small   *)
(* enough for double arithmetic to be exact; NaN is a value of its own.    *)
(* A text the code computes is [thrown, v]: whether computing it threw a   *)
(* TypeError, and the text when it did not.  Strings are TLA+ strings;     *)
(* texts that the hook matches with regular expressions are sequences of   *)
(* one-character strings.                                                  *)
(***************************************************************************)
EXTENDS Integers, Sequences, FiniteSets, TLC

VARIABLES pc, args, doc, schema, result, elements, element, cwd, curDir, attempts, thrown

vars == <<pc, args, doc, schema, result, elements, element, cwd, curDir, attempts, thrown>>

(***************************************************************************)
(* Bounds of the model.                                                    *)
(***************************************************************************)
MaxEnumLen == 2
MaxNum == 2
MaxDepth == 3

(***************************************************************************)
(* JavaScript values.                                                      *)
(***************************************************************************)
Undef == [t |-> "undefined"]
Null == [t |-> "null"]
Str(s) == [t |-> "string", v |-> s]
Num(n) == [t |-> "number", v |-> n]
Bool(b) == [t |-> "boolean", v |-> b]
Arr(s) == [t |-> "array", v |-> s]
Obj(p) == [t |-> "object", v |-> p]
NaN == [t |-> "nan"]

\* A TypeError thrown where a value was to be computed.
TypeError == [t |-> "TypeError"]

\* A text computed, and the TypeError thrown where a text was to be.
Txt(s) == [thrown |-> FALSE, v |-> s]
Failed == [thrown |-> TRUE, v |-> ""]

\* a + b of two texts, either of which may have thrown
Cat(a, b) == IF a.thrown \/ b.thrown THEN Failed ELSE Txt(a.v \o b.v)

\* ToBoolean: what `if (x)`, `x || y` and `x ? a : b` test.
Truthy(x) ==
  CASE x.t = "undefined" -> FALSE
    [] x.t = "null" -> FALSE
    [] x.t = "string" -> x.v # ""
    [] x.t = "number" -> x.v # 0
    [] x.t = "boolean" -> x.v
    [] x.t = "nan" -> FALSE
    [] OTHER -> TRUE

\* x || y
Or(x, y) == IF Truthy(x) THEN x ELSE y

\* x === 'literal'
IsStr(x, s) == x.t = "string" /\ x.v = s

\* o[k] for a value that is not null or undefined: an own property of an
\* object, undefined on a primitive or an array (no schema keyword is an
\* array index or a String/Array prototype member).
Get(o, k) ==
  IF o.t = "object"
  THEN LET idx == {i \in 1..Len(o.v) : o.v[i][1] = k}
       IN IF idx = {} THEN Undef
          ELSE o.v[CHOOSE i \in idx : \A j \in idx : i <= j][2]
  ELSE Undef

RECURSIVE JoinWith(_, _)
\* Concatenation of a sequence of strings with a separator.
JoinWith(ss, sep) ==
  IF Len(ss) = 0 THEN ""
  ELSE IF Len(ss) = 1 THEN ss[1]
  ELSE ss[1] \o sep \o JoinWith(Tail(ss), sep)

\* o.hasOwnProperty(k) for an object
HasOwn(o, k) == o.t = "object" /\ \E i \in 1..Len(o.v) : o.v[i][1] = k

RECURSIVE Converts(_)
\* Whether a value can be converted to a primitive.  An object is converted
\* by its toString method: the inherited one, unless it has an own
\* property of that name, which in a parsed schema is no function (and
\* valueOf, tried next, returns the object itself).  An array is converted
\* by joining its elements, each converted in turn.
Converts(x) ==
  CASE x.t = "object" -> ~HasOwn(x, "toString")
    [] x.t = "array" -> \A i \in 1..Len(x.v) : Converts(x.v[i])
    [] OTHER -> TRUE

RECURSIVE StringOf(_)
\* String(x) of a value that converts.
StringOf(x) ==
  CASE x.t = "undefined" -> "undefined"
    [] x.t = "null" -> "null"
    [] x.t = "string" -> x.v
    [] x.t = "number" -> ToString(x.v)
    [] x.t = "boolean" -> (IF x.v THEN "true" ELSE "false")
    [] x.t = "nan" -> "NaN"
    [] x.t = "array" ->
         JoinWith([i \in 1..Len(x.v) |->
                     IF x.v[i].t \in {"undefined", "null"} THEN "" ELSE StringOf(x.v[i])], ",")
    [] OTHER -> "[object Object]"

\* String(x), as a template literal `${x}` and x.toString() convert.
ToStr(x) == IF Converts(x) THEN Txt(StringOf(x)) ELSE Failed

\* Array.prototype.join(','): null and undefined elements become empty.
JoinComma(s) == ToStr(Arr(s))

\* The blanks around a string removed.
RECURSIVE TrimBlanks(_)
TrimBlanks(str) ==
  IF Len(str) > 0 /\ SubSeq(str, 1, 1) = " " THEN TrimBlanks(SubSeq(str, 2, Len(str)))
  ELSE IF Len(str) > 0 /\ SubSeq(str, Len(str), Len(str)) = " "
       THEN TrimBlanks(SubSeq(str, 1, Len(str) - 1))
       ELSE str

DigitValue(c) == CHOOSE d \in 0..9 : ToString(d) = c

RECURSIVE DecimalValue(_)
\* The value of a string of decimal digits.
DecimalValue(str) ==
  IF Len(str) = 0 THEN 0
  ELSE 10 * DecimalValue(SubSeq(str, 1, Len(str) - 1)) + DigitValue(SubSeq(str, Len(str), Len(str)))

\* Number(str) for strings whose white space is the blank and whose numeric
\* form, if any, is a decimal integer with an optional sign: the empty
\* string is 0, any other text is NaN.
StringToNumber(str) ==
  LET trimmed == TrimBlanks(str)
      signed == Len(trimmed) > 0 /\ SubSeq(trimmed, 1, 1) \in {"+", "-"}
      digits == IF signed THEN SubSeq(trimmed, 2, Len(trimmed)) ELSE trimmed
  IN IF Len(trimmed) = 0 THEN Num(0)
     ELSE IF Len(digits) > 0
             /\ \A i \in 1..Len(digits) : \E d \in 0..9 : ToString(d) = SubSeq(digits, i, i)
          THEN Num(IF signed /\ SubSeq(trimmed, 1, 1) = "-"
                   THEN 0 - DecimalValue(digits) ELSE DecimalValue(digits))
          ELSE NaN

\* Number(x), as x - 1 converts its left operand.
ToNumber(x) ==
  CASE x.t = "number" -> x
    [] x.t = "nan" -> NaN
    [] x.t = "boolean" -> Num(IF x.v THEN 1 ELSE 0)
    [] x.t = "null" -> Num(0)
    [] x.t = "undefined" -> NaN
    [] x.t = "string" -> StringToNumber(x.v)
    [] OTHER -> IF Converts(x) THEN StringToNumber(StringOf(x)) ELSE TypeError

\* x + 1: a sum of numbers, unless x converts to a string, which the text
\* of 1 is then appended to.
PlusOne(x) ==
  CASE x.t = "number" -> Num(x.v + 1)
    [] x.t = "nan" -> NaN
    [] x.t = "boolean" -> Num(IF x.v THEN 2 ELSE 1)
    [] x.t = "null" -> Num(1)
    [] x.t = "undefined" -> NaN
    [] x.t = "string" -> Str(x.v \o "1")
    [] OTHER -> IF Converts(x) THEN Str(StringOf(x) \o "1") ELSE TypeError

\* x - 1
MinusOne(x) ==
  LET n == ToNumber(x)
  IN IF n.t = "number" THEN Num(n.v - 1) ELSE n

RECURSIVE JSONStringify(_)
\* JSON.stringify of a value built from strings without characters that
\* need escaping, integers, booleans, null, arrays and objects.
JSONStringify(x) ==
  CASE x.t = "string" -> "\"" \o x.v \o "\""
    [] x.t = "number" -> ToString(x.v)
    [] x.t = "boolean" -> (IF x.v THEN "true" ELSE "false")
    [] x.t = "array" ->
         "[" \o JoinWith([i \in 1..Len(x.v) |->
                            IF x.v[i].t = "undefined" THEN "null"
                            ELSE JSONStringify(x.v[i])], ",") \o "]"
    [] x.t = "object" ->
         LET kept == SelectSeq(x.v, LAMBDA e : e[2].t # "undefined")
         IN "{" \o JoinWith([i \in 1..Len(kept) |->
                               "\"" \o kept[i][1] \o "\":" \o JSONStringify(kept[i][2])], ",")
                \o "}"
    [] OTHER -> "null"

(***************************************************************************)
(* createDocParameter (src/index.js:70-89).  name and type are strings,    *)
(* isRequired a boolean, the other parameters JavaScript values.  The      *)
(* type expression and the descriptor are texts that may have thrown.      *)
(***************************************************************************)

\* `${sizeMin || ''}`
OrEmpty(x) == IF Truthy(x) THEN ToStr(x) ELSE Txt("")

\* lines 72-74: the size-range suffix
SizeSuffix(sizeMin, sizeMax) ==
  IF Truthy(sizeMin) \/ Truthy(sizeMax)
  THEN Cat(Cat(Txt("{"), OrEmpty(sizeMin)), Cat(Txt(".."), Cat(OrEmpty(sizeMax), Txt("}"))))
  ELSE Txt("")

\* line 80: allowedValues.filter(value => typeof value === 'string' ? `"${value}"` : value)
\* keeps every string (the quoted text is never empty) and every other
\* truthy value.
FilterAllowed(s) == SelectSeq(s, LAMBDA value : value.t = "string" \/ Truthy(value))

\* lines 76-83: the allowed-values suffix; a truthy value that is neither
\* a string nor an array has no filter method
AllowedSuffix(allowedValues) ==
  IF Truthy(allowedValues)
  THEN IF allowedValues.t = "string"
       THEN Txt("=\"" \o allowedValues.v \o "\"")
       ELSE IF allowedValues.t # "array" THEN Failed
       ELSE Cat(Txt("=\""), Cat(JoinComma(FilterAllowed(allowedValues.v)), Txt("\"")))
  ELSE Txt("")

\* line 85
WithDefault(name, defaultValue) ==
  IF Truthy(defaultValue) THEN name \o "=" \o JSONStringify(defaultValue) ELSE name

\* line 86
WithBrackets(name, isRequired) ==
  IF ~isRequired THEN "[" \o name \o "]" ELSE name

\* lines 85-86 in the other order: the brackets first, the default after
NameExprBracketsFirst(name, isRequired, defaultValue) ==
  WithDefault(WithBrackets(name, isRequired), defaultValue)

\* lines 85-86, in this order
NameExpr(name, isRequired, defaultValue) ==
  WithBrackets(WithDefault(name, defaultValue), isRequired)

\* lines 72-83, in this order
TypeExpr(type, sizeMin, sizeMax, allowedValues) ==
  Cat(Txt(type), Cat(SizeSuffix(sizeMin, sizeMax), AllowedSuffix(allowedValues)))

createDocParameter(name, type, sizeMin, sizeMax, allowedValues, isRequired, defaultValue, description) ==
  Cat(Cat(Txt("{"), TypeExpr(type, sizeMin, sizeMax, allowedValues)),
      Cat(Txt("} " \o NameExpr(name, isRequired, defaultValue) \o " "), OrEmpty(description)))

(***************************************************************************)
(* iterateObjectReqursive (src/index.js:91-159).  A call returns           *)
(* [acc, thrown]: the accumulator as the call leaves it and whether the    *)
(* call threw a TypeError (a property named hasOwnProperty, a property     *)
(* whose value is null, an `items` that is no array, a `required` that is  *)
(* neither an array nor a string, a keyword whose value cannot be turned   *)
(* into text, an `enum` that is neither a string nor an array).            *)
(***************************************************************************)

\* line 93: obj.hasOwnProperty(name) calls the object's own property of
\* that name when it has one; the values of a parsed schema are no
\* functions, so the call throws in the first iteration.  Without such a
\* property the method is the inherited one and answers true for every
\* name the loop enumerates: parsed JSON or YAML has no enumerable
\* inherited property, and the guard never returns.
HasOwnPropertyThrows(obj) == HasOwn(obj, "hasOwnProperty")

\* The <<name, value>> pairs `for (name in obj)` enumerates (line 92) with
\* item = obj[name] (line 96): the own properties of an object in insertion
\* order, the indices of an array; nothing for null, a number or a boolean.
\* A string enumerates its characters, whose .type is undefined, so it
\* contributes no step that changes the accumulator and is left out.
\* No pair passes the guard of line 93 when it throws.
Entries(obj) ==
  CASE HasOwnPropertyThrows(obj) -> << >>
    [] obj.t = "object" -> obj.v
    [] obj.t = "array" -> [i \in 1..Len(obj.v) |-> <<ToString(i - 1), obj.v[i]>>]
    [] OTHER -> <<>>

RECURSIVE Spaces(_)
Spaces(n) == IF n <= 0 THEN "" ELSE " " \o Spaces(n - 1)

\* ld.padStart(name, depth): lodash pads on the left with spaces up to a
\* total length of `depth`, and returns the string as it is when it is
\* already that long.
padStart(name, length) == Spaces(length - Len(name)) \o name

\* String.prototype.includes: name is a substring of s
StringIncludes(s, name) ==
  \/ name = ""
  \/ \E i \in 1..(Len(s) - Len(name) + 1) : SubSeq(s, i, i + Len(name) - 1) = name

\* requiredItems.includes(name): an element of an array, a substring of a
\* string
Includes(requiredItems, name) ==
  IF requiredItems.t = "string"
  THEN StringIncludes(requiredItems.v, name)
  ELSE \E i \in 1..Len(requiredItems.v) : IsStr(requiredItems.v[i], name)

\* line 104, item.type being the string the switch matched; the text of
\* item.pattern.toString() is the text of `${item.pattern}`
StringTypeLabel(item) ==
  IF Truthy(Or(Get(item, "format"), Get(item, "pattern")))
  THEN Cat(Txt(Get(item, "type").v \o " / "), ToStr(Or(Get(item, "format"), Get(item, "pattern"))))
  ELSE Txt(Get(item, "type").v)

\* line 115 without its exclusiveMinimum test
EffectiveMinimumInclusive(item) ==
  IF Truthy(Get(item, "minimum")) THEN Get(item, "minimum") ELSE Null

\* line 115: a value, or TypeError
EffectiveMinimum(item) ==
  IF Truthy(Get(item, "minimum"))
  THEN IF Truthy(Get(item, "exclusiveMinimum"))
       THEN PlusOne(Get(item, "minimum"))
       ELSE Get(item, "minimum")
  ELSE Null

\* line 116: a value, or TypeError
EffectiveMaximum(item) ==
  IF Truthy(Get(item, "maximum"))
  THEN IF Truthy(Get(item, "exclusiveMaximum"))
       THEN MinusOne(Get(item, "maximum"))
       ELSE Get(item, "maximum")
  ELSE Null

\* item.title || item.description
Description(item) == Or(Get(item, "title"), Get(item, "description"))

\* The descriptor under a type label that may have thrown.
Labelled(label, paddedName, sizeMin, sizeMax, allowedValues, isRequired, defaultValue, description) ==
  IF label.thrown THEN Failed
  ELSE createDocParameter(paddedName, label.v, sizeMin, sizeMax, allowedValues,
                          isRequired, defaultValue, description)

\* The descriptor under bounds either of which may have thrown.
Bounded(paddedName, type, minimum, maximum, allowedValues, isRequired, defaultValue, description) ==
  IF minimum.t = "TypeError" \/ maximum.t = "TypeError" THEN Failed
  ELSE createDocParameter(paddedName, type, minimum, maximum, allowedValues,
                          isRequired, defaultValue, description)

\* lines 102-111
StringParameter(paddedName, name, item, requiredItems) ==
  Labelled(StringTypeLabel(item), paddedName,
           Get(item, "minLength"), Get(item, "maxLength"), Get(item, "enum"),
           Includes(requiredItems, name), Get(item, "default"), Description(item))

\* lines 115-126
NumberParameter(paddedName, name, item, requiredItems) ==
  Bounded(paddedName, Get(item, "type").v,
          EffectiveMinimum(item), EffectiveMaximum(item), Get(item, "enum"),
          Includes(requiredItems, name), Get(item, "default"), Description(item))

\* lines 129-138
BooleanParameter(paddedName, name, item, requiredItems) ==
  createDocParameter(paddedName, Get(item, "type").v, Null, Null, Null,
                     Includes(requiredItems, name), Get(item, "default"), Description(item))

\* lines 142-151
ArrayParameter(paddedName, name, item, requiredItems) ==
  createDocParameter(paddedName, Get(item, "type").v,
                     Get(item, "minItems"), Get(item, "maxItems"), Null,
                     Includes(requiredItems, name), Get(item, "default"), Description(item))

\* accumulator.push(createDocParameter(...)): the accumulator after the
\* push, or as it was when computing the descriptor threw
Pushed(accumulator, descriptor) ==
  IF descriptor.thrown THEN [acc |-> accumulator, thrown |-> TRUE]
  ELSE [acc |-> Append(accumulator, descriptor.v), thrown |-> FALSE]

\* The arguments of the recursive call of line 99.
ObjectCall(item, depth) ==
  [obj |-> Get(item, "properties"), depth |-> depth + 1, requiredItems |-> Get(item, "required")]

\* The arguments of the recursive call of line 154: the member itself is
\* the mapping walked, and requiredItems is left to its default.
MemberCall(value, depth) ==
  [obj |-> value, depth |-> depth + 1, requiredItems |-> Undef]

RECURSIVE iterateObjectReqursive(_, _, _, _), ForIn(_, _, _, _, _), ForEachItems(_, _, _, _)
RECURSIVE Continue(_, _, _, _, _)

\* The loop goes on to its next property, unless the step threw.
Continue(r, obj, i, depth, requiredItems) ==
  IF r.thrown THEN r ELSE ForIn(r.acc, obj, i + 1, depth, requiredItems)

\* The loop of lines 92-158 from the i-th enumerated property on.
ForIn(accumulator, obj, i, depth, requiredItems) ==
  LET entries == Entries(obj)
  IN IF HasOwnPropertyThrows(obj) THEN [acc |-> accumulator, thrown |-> TRUE]
     ELSE IF i > Len(entries) THEN [acc |-> accumulator, thrown |-> FALSE]
     ELSE
       LET name == entries[i][1]
           item == entries[i][2]
           paddedName == padStart(name, depth)
           type == IF item.t \in {"undefined", "null"} THEN Undef ELSE Get(item, "type")
           IsLeafType == IsStr(type, "string") \/ IsStr(type, "number")
                           \/ IsStr(type, "integer") \/ IsStr(type, "boolean")
                           \/ (IsStr(type, "array") /\ ~Truthy(Get(item, "items")))
       IN CASE item.t \in {"undefined", "null"} ->
                 \* line 97: item.type of null or undefined
                 [acc |-> accumulator, thrown |-> TRUE]
            [] IsStr(type, "object") ->
                 LET c == ObjectCall(item, depth)
                 IN Continue(iterateObjectReqursive(accumulator, c.obj, c.depth, c.requiredItems),
                             obj, i, depth, requiredItems)
            [] IsLeafType /\ requiredItems.t \notin {"array", "string"} ->
                 \* requiredItems.includes is not a function (a `required`
                 \* that is null, a number, a boolean or an object)
                 [acc |-> accumulator, thrown |-> TRUE]
            [] IsStr(type, "string") ->
                 Continue(Pushed(accumulator, StringParameter(paddedName, name, item, requiredItems)),
                          obj, i, depth, requiredItems)
            [] IsStr(type, "number") \/ IsStr(type, "integer") ->
                 Continue(Pushed(accumulator, NumberParameter(paddedName, name, item, requiredItems)),
                          obj, i, depth, requiredItems)
            [] IsStr(type, "boolean") ->
                 Continue(Pushed(accumulator, BooleanParameter(paddedName, name, item, requiredItems)),
                          obj, i, depth, requiredItems)
            [] IsStr(type, "array") /\ ~Truthy(Get(item, "items")) ->
                 \* line 142: `return accumulator.push(...)` ends the whole call
                 Pushed(accumulator, ArrayParameter(paddedName, name, item, requiredItems))
            [] IsStr(type, "array") /\ Get(item, "items").t # "array" ->
                 \* item.items.forEach is not a function
                 [acc |-> accumulator, thrown |-> TRUE]
            [] IsStr(type, "array") ->
                 Continue(ForEachItems(accumulator, Get(item, "items").v, 1, depth),
                          obj, i, depth, requiredItems)
            [] OTHER -> ForIn(accumulator, obj, i + 1, depth, requiredItems)

\* item.items.forEach(value => ...) of lines 153-155 from the k-th member on.
ForEachItems(accumulator, members, k, depth) ==
  IF k > Len(members) THEN [acc |-> accumulator, thrown |-> FALSE]
  ELSE LET c == MemberCall(members[k], depth)
           r == iterateObjectReqursive(accumulator, c.obj, c.depth, c.requiredItems)
       IN IF r.thrown THEN r ELSE ForEachItems(r.acc, members, k + 1, depth)

\* line 91: the default parameters replace undefined arguments.
iterateObjectReqursive(accumulator, obj, depth, requiredItems) ==
  ForIn(accumulator,
        IF obj.t = "undefined" THEN Obj(<<>>) ELSE obj,
        1, depth,
        IF requiredItems.t = "undefined" THEN Arr(<<>>) ELSE requiredItems)

(***************************************************************************)
(* extractArgumentsFromSchema (src/index.js:164-173).  The result is       *)
(* [items, thrown, returned]: the local list `items` when the call ends,   *)
(* the error thrown ("none", "Error" for allOf, "TypeError" from the       *)
(* walker) and whether the list was returned to the caller.                *)
(***************************************************************************)

\* The arguments of the call of line 171: depth and requiredItems are left
\* to their defaults.
RootCall(s) == [obj |-> Get(s, "properties"), depth |-> 0, requiredItems |-> Undef]

\* line 167
RejectsComposition(s) == Truthy(Get(s, "allOf"))

\* lines 166-172 with the allOf test moved after the traversal
extractArgumentsRejectingLast(s) ==
  LET c == RootCall(s)
      r == iterateObjectReqursive(<<>>, c.obj, c.depth, c.requiredItems)
  IN IF r.thrown
     THEN [items |-> r.acc, thrown |-> "TypeError", returned |-> FALSE]
     ELSE IF RejectsComposition(s)
          THEN [items |-> r.acc, thrown |-> "Error", returned |-> FALSE]
          ELSE [items |-> r.acc, thrown |-> "none", returned |-> TRUE]

extractArgumentsFromSchema(s) ==
  IF RejectsComposition(s)
  THEN [items |-> <<>>, thrown |-> "Error", returned |-> FALSE]
  ELSE LET c == RootCall(s)
           r == iterateObjectReqursive(<<>>, c.obj, c.depth, c.requiredItems)
       IN IF r.thrown
          THEN [items |-> r.acc, thrown |-> "TypeError", returned |-> FALSE]
          ELSE [items |-> r.acc, thrown |-> "none", returned |-> TRUE]

(***************************************************************************)
(* Schemas the walker is run on.                                           *)
(***************************************************************************)
Leaf(type) == Obj(<< <<"type", Str(type)>> >>)

\* A JavaScript object without its undefined properties.
Compact(pairs) == Obj(SelectSeq(pairs, LAMBDA e : e[2].t # "undefined"))

ObjectNode(props, required) ==
  Compact(<< <<"type", Str("object")>>, <<"properties", props>>, <<"required", required>> >>)

ArrayNode(items) == Compact(<< <<"type", Str("array")>>, <<"items", items>> >>)

StrArr(names) == Arr([i \in 1..Len(names) |-> Str(names[i])])

\* The property nodes the structural schemas are built from.
NodeList ==
  << Leaf("string"),
     Obj(<< <<"type", Str("string")>>, <<"format", Str("date")>>, <<"default", Str("x")>>,
            <<"title", Str("t")>>, <<"description", Str("d")>> >>),
     Leaf("boolean"),
     Obj(<< <<"type", Str("integer")>>, <<"minimum", Num(1)>>, <<"maximum", Num(3)>> >>),
     Obj(<< <<"type", Str("number")>>, <<"minimum", Num(5)>>, <<"exclusiveMinimum", Bool(TRUE)>>,
            <<"maximum", Num(10)>>, <<"exclusiveMaximum", Bool(TRUE)>> >>),
     Leaf("array"),
     Obj(<< <<"type", Str("array")>>, <<"minItems", Num(1)>>, <<"maxItems", Num(3)>> >>),
     ObjectNode(Obj(<< <<"b", Leaf("string")>> >>), Undef),
     ObjectNode(Obj(<< <<"b", Leaf("string")>> >>), StrArr(<<"b">>)),
     ObjectNode(Obj(<< <<"b", Leaf("array")>>, <<"cc", Leaf("string")>> >>), StrArr(<<"cc">>)),
     ObjectNode(Obj(<< <<"b", ObjectNode(Obj(<< <<"c", Leaf("string")>> >>), StrArr(<<"c">>))>>,
                       <<"cc", Leaf("boolean")>> >>), StrArr(<<"b">>)),
     ObjectNode(Undef, Undef),
     ArrayNode(Arr(<< Obj(<< <<"x", Leaf("string")>> >>) >>)),
     ArrayNode(Arr(<< ObjectNode(Obj(<< <<"x", Leaf("string")>> >>), StrArr(<<"x">>)) >>)),
     ArrayNode(Arr(<< ObjectNode(Obj(<< <<"x", Leaf("string")>> >>), Undef),
                      ObjectNode(Obj(<< <<"y", Leaf("boolean")>> >>), Undef) >>)),
     ArrayNode(Arr(<< Obj(<< <<"x", Leaf("string")>> >>),
                      Obj(<< <<"y", Leaf("array")>>, <<"z", Leaf("boolean")>> >>) >>)),
     ArrayNode(Arr(<< >>)),
     ArrayNode(Leaf("string")),
     ObjectNode(Obj(<< <<"b", Leaf("string")>>, <<"cc", Leaf("boolean")>> >>), Str("abc")),
     ObjectNode(Obj(<< <<"b", Leaf("string")>> >>), Num(1)),
     ObjectNode(Obj(<< <<"hasOwnProperty", Leaf("string")>>, <<"b", Leaf("string")>> >>), Undef),
     Obj(<< <<"type", Str("string")>>, <<"enum", Obj(<< >>)>> >>),
     Obj(<< <<"type", Str("boolean")>>, <<"description", Obj(<< <<"toString", Num(1)>> >>)>> >>),
     Obj(<< <<"type", Str("string")>>, <<"pattern", Arr(<< Num(1), Null, Obj(<< >>) >>)>> >>),
     Obj(<< <<"type", Str("integer")>>, <<"minimum", Str("5")>>, <<"exclusiveMinimum", Bool(TRUE)>>,
            <<"maximum", Str(" 7")>>, <<"exclusiveMaximum", Bool(TRUE)>> >>),
     Obj(<< <<"type", Str("number")>>, <<"minimum", Bool(TRUE)>>, <<"exclusiveMinimum", Num(1)>>,
            <<"maximum", Obj(<< >>)>>, <<"exclusiveMaximum", Str("y")>> >>),
     Obj(<< <<"type", Str("number")>>, <<"maximum", Arr(<< Obj(<< <<"toString", Null>> >>) >>)>>,
            <<"exclusiveMaximum", Bool(TRUE)>> >>) >>

\* The `required` lists given to a root whose properties are a and bb.
RootRequiredList ==
  << Undef, StrArr(<< >>), StrArr(<<"a">>), StrArr(<<"bb">>), StrArr(<<"a", "bb">>) >>

\* The `allOf` values given to a root.
AllOfList ==
  << Undef, Arr(<< >>), Arr(<< ObjectNode(Obj(<< <<"q", Leaf("string")>> >>), Undef) >>) >>

RootSchema(props, required, allOf) ==
  Compact(<< <<"type", Str("object")>>, <<"properties", props>>,
             <<"required", required>>, <<"allOf", allOf>> >>)

\* A root with property a, and property bb when j > 0.
StructuralSchema(i, j, r, c) ==
  RootSchema(Obj(IF j = 0 THEN << <<"a", NodeList[i]>> >>
                 ELSE << <<"a", NodeList[i]>>, <<"bb", NodeList[j]>> >>),
             RootRequiredList[r], AllOfList[c])

\* A name of n characters.
NameOfLen(n) == IF n = 1 THEN "n" ELSE IF n = 2 THEN "nn" ELSE IF n = 3 THEN "nnn"
                ELSE IF n = 4 THEN "nnnn" ELSE "nnnnn"

RECURSIVE Nested(_, _, _, _)
\* The property mapping holding `name` below d levels: object levels, or
\* array-of-schemas levels whose single member is the next mapping.
Nested(d, name, node, viaArray) ==
  IF d = 0 THEN Obj(<< <<name, node>> >>)
  ELSE IF viaArray
       THEN Obj(<< <<"o", ArrayNode(Arr(<< Nested(d - 1, name, node, viaArray) >>))>> >>)
       ELSE Obj(<< <<"o", ObjectNode(Nested(d - 1, name, node, viaArray), StrArr(<<name>>))>> >>)

NestedSchema(d, len, leafType, viaArray) ==
  RootSchema(Nested(d, NameOfLen(len), Leaf(leafType), viaArray), Undef, Undef)

\* minimum, maximum: absent or an integer of -MaxNum..MaxNum
BoundValue(k) == IF k > MaxNum THEN Undef ELSE Num(k)

\* exclusiveMinimum, exclusiveMaximum
FlagList == << Undef, Bool(FALSE), Bool(TRUE) >>

NumericSchema(type, lo, hi, xlo, xhi) ==
  RootSchema(Obj(<< <<"n", Compact(<< <<"type", Str(type)>>,
                                      <<"minimum", BoundValue(lo)>>,
                                      <<"exclusiveMinimum", FlagList[xlo]>>,
                                      <<"maximum", BoundValue(hi)>>,
                                      <<"exclusiveMaximum", FlagList[xhi]>> >>)>> >>),
             Undef, Undef)

(***************************************************************************)
(* SpecWalk: extractArgumentsFromSchema applied to a schema.               *)
(***************************************************************************)
NoElement == [sourceName |-> "", content |-> << >>]

IdleHook ==
  /\ elements = << >>
  /\ element = NoElement
  /\ cwd = ""
  /\ curDir = ""
  /\ attempts = << >>
  /\ thrown = "none"

IdleFormat ==
  /\ args = Undef
  /\ doc = ""

IdleWalk ==
  /\ schema = Undef
  /\ result = [items |-> << >>, thrown |-> "none", returned |-> FALSE]

InitWalk ==
  /\ pc = "walk"
  /\ result = [items |-> << >>, thrown |-> "none", returned |-> FALSE]
  /\ \/ \E i \in 1..Len(NodeList), j \in 0..Len(NodeList),
           r \in 1..Len(RootRequiredList), c \in 1..Len(AllOfList) :
           schema = StructuralSchema(i, j, r, c)
     \/ \E d \in 0..MaxDepth, len \in 1..(MaxDepth + 1),
           leafType \in {"string", "boolean"}, viaArray \in BOOLEAN :
           schema = NestedSchema(d, len, leafType, viaArray)
     \/ \E type \in {"number", "integer"},
           lo \in (-MaxNum)..(MaxNum + 1), hi \in (-MaxNum)..(MaxNum + 1),
           xlo \in 1..Len(FlagList), xhi \in 1..Len(FlagList) :
           schema = NumericSchema(type, lo, hi, xlo, xhi)
  /\ IdleFormat
  /\ IdleHook

Extract ==
  /\ pc = "walk"
  /\ result' = extractArgumentsFromSchema(schema)
  /\ pc' = "walked"
  /\ UNCHANGED <<args, doc, schema, elements, element, cwd, curDir, attempts, thrown>>

NextWalk == Extract

SpecWalk == InitWalk /\ [][NextWalk]_vars

(***************************************************************************)
(* What the claims say of a traversal: the leaves of a schema in           *)
(* depth-first document order, each with its nesting depth and whether     *)
(* its immediate parent's `required` list names it.  An object             *)
(* contributes the leaves of its `properties` under its own `required`, an *)
(* array whose `items` is a sequence the leaves of each member schema's    *)
(* `properties` with nothing required.                                     *)
(***************************************************************************)
RECURSIVE Flatten(_)
Flatten(ss) == IF Len(ss) = 0 THEN << >> ELSE Head(ss) \o Flatten(Tail(ss))

IsLeafNode(item) ==
  \/ IsStr(Get(item, "type"), "string")
  \/ IsStr(Get(item, "type"), "number")
  \/ IsStr(Get(item, "type"), "integer")
  \/ IsStr(Get(item, "type"), "boolean")
  \/ (IsStr(Get(item, "type"), "array") /\ Get(item, "items").t = "undefined")

Named(required, name) ==
  required.t = "array" /\ \E i \in 1..Len(required.v) : IsStr(required.v[i], name)

RECURSIVE LeavesOf(_, _, _)
LeavesOf(props, depth, required) ==
  IF props.t # "object" THEN << >>
  ELSE Flatten([i \in 1..Len(props.v) |->
         LET name == props.v[i][1]
             item == props.v[i][2]
         IN CASE IsLeafNode(item) ->
                   << [name |-> name, item |-> item, depth |-> depth,
                       required |-> Named(required, name)] >>
              [] IsStr(Get(item, "type"), "object") ->
                   LeavesOf(Get(item, "properties"), depth + 1, Get(item, "required"))
              [] IsStr(Get(item, "type"), "array") /\ Get(item, "items").t = "array" ->
                   Flatten([k \in 1..Len(Get(item, "items").v) |->
                              LeavesOf(Get(Get(item, "items").v[k], "properties"),
                                       depth + 1, Undef)])
              [] OTHER -> << >>])

RECURSIVE NodesOf(_)
\* Every property node of a mapping and of the objects nested in it.
NodesOf(props) ==
  IF props.t # "object" THEN << >>
  ELSE Flatten([i \in 1..Len(props.v) |->
         << props.v[i][2] >> \o
         (IF IsStr(Get(props.v[i][2], "type"), "object")
          THEN NodesOf(Get(props.v[i][2], "properties")) ELSE << >>)])

AllNodes(s, P(_)) ==
  \A i \in 1..Len(NodesOf(Get(s, "properties"))) : P(NodesOf(Get(s, "properties"))[i])

IsArrayNode(item) == IsStr(Get(item, "type"), "array")

\* The descriptor of a leaf under a given rendered name and requiredness.
LeafDoc(leaf, paddedName, isRequired) ==
  LET requiredItems == IF isRequired THEN StrArr(<<leaf.name>>) ELSE StrArr(<< >>)
      type == Get(leaf.item, "type").v
  IN CASE type = "string" -> StringParameter(paddedName, leaf.name, leaf.item, requiredItems).v
       [] type \in {"number", "integer"} ->
            NumberParameter(paddedName, leaf.name, leaf.item, requiredItems).v
       [] type = "boolean" -> BooleanParameter(paddedName, leaf.name, leaf.item, requiredItems).v
       [] OTHER -> ArrayParameter(paddedName, leaf.name, leaf.item, requiredItems).v

Walked == pc = "walked" /\ Get(schema, "allOf").t = "undefined"

\* The traversal of a schema whose keywords have values the walker can
\* read: it ended without a TypeError.
WalkedThrough == Walked /\ result.thrown # "TypeError"

\* C1: in a schema of objects and scalar leaves, every leaf at every level
\* (the root's own properties included) is rendered unwrapped exactly when
\* its immediate parent's `required` list names it, and wrapped in [...]
\* otherwise.
C1_RequiredFromImmediateParent ==
  (WalkedThrough /\ AllNodes(schema, LAMBDA n : ~IsArrayNode(n))) =>
    LET leaves == LeavesOf(Get(schema, "properties"), 0, Get(schema, "required"))
    IN result.items = [i \in 1..Len(leaves) |->
                         LeafDoc(leaves[i], padStart(leaves[i].name, leaves[i].depth),
                                 leaves[i].required)]

\* C2: in a schema of objects and scalar leaves, the name rendered for a
\* leaf at nesting depth d is the property name with exactly d padding
\* characters on its left.
C2_NamePaddedByDepth ==
  (WalkedThrough /\ AllNodes(schema, LAMBDA n : ~IsArrayNode(n))) =>
    LET leaves == LeavesOf(Get(schema, "properties"), 0, Undef)
    IN result.items = [i \in 1..Len(leaves) |->
                         LeafDoc(leaves[i], Spaces(leaves[i].depth) \o leaves[i].name,
                                 leaves[i].required)]

\* C3: in a schema of objects, scalar leaves and arrays without `items`,
\* one traversal appends exactly one descriptor per leaf, in depth-first
\* document order: the leaves after an array without `items` included.
C3_OneDescriptorPerLeaf ==
  (WalkedThrough /\ AllNodes(schema, LAMBDA n : IsArrayNode(n) => IsLeafNode(n))) =>
    LET leaves == LeavesOf(Get(schema, "properties"), 0, Undef)
    IN /\ result.returned
       /\ result.items = [i \in 1..Len(leaves) |->
                            LeafDoc(leaves[i], padStart(leaves[i].name, leaves[i].depth),
                                    leaves[i].required)]

\* An array whose `items` is a sequence of object schemas with scalar fields.
IsArrayOfObjectSchemas(item) ==
  /\ IsArrayNode(item)
  /\ Get(item, "items").t = "array"
  /\ \A k \in 1..Len(Get(item, "items").v) :
       LET member == Get(item, "items").v[k]
       IN /\ IsStr(Get(member, "type"), "object")
          /\ AllNodes(member, LAMBDA n : IsLeafNode(n) /\ ~IsArrayNode(n))

\* C4: for root properties that are arrays whose `items` is a sequence of
\* schemas, the walker appends nothing for the array itself and, member by
\* member in order, the descriptors of the member schema's fields, at
\* depth + 1 and not required.
C4_ArrayMembersFieldsRendered ==
  (WalkedThrough /\ Get(schema, "properties").t = "object"
          /\ \A i \in 1..Len(Get(schema, "properties").v) :
               IsArrayOfObjectSchemas(Get(schema, "properties").v[i][2])) =>
    LET leaves == LeavesOf(Get(schema, "properties"), 0, Undef)
    IN /\ result.returned
       /\ result.items = [i \in 1..Len(leaves) |->
                            LeafDoc(leaves[i], padStart(leaves[i].name, 1), FALSE)]

\* A number or integer property that declares bounds only, each a number.
IsPlainNumeric(item) ==
  /\ IsStr(Get(item, "type"), "number") \/ IsStr(Get(item, "type"), "integer")
  /\ \A k \in {"minimum", "maximum"} : Get(item, k).t \in {"undefined", "number"}
  /\ \A k \in {"enum", "default", "title", "description"} : Get(item, k).t = "undefined"

FlatNumeric(s) ==
  /\ Get(s, "properties").t = "object"
  /\ Len(Get(s, "properties").v) > 0
  /\ \A i \in 1..Len(Get(s, "properties").v) : IsPlainNumeric(Get(s, "properties").v[i][2])

Declared(item, k) == Get(item, k).t = "number"

\* The descriptor of a root property that has this type expression, its
\* name wrapped or not.
HasTypeExpr(d, typeExpr, name) ==
  \/ d = "{" \o typeExpr \o "} " \o name \o " "
  \/ d = "{" \o typeExpr \o "} [" \o name \o "] "

\* The bounds as the claim renders them.
ClaimedLower(item) ==
  IF Declared(item, "minimum")
  THEN ToString(IF Truthy(Get(item, "exclusiveMinimum"))
                THEN Get(item, "minimum").v + 1 ELSE Get(item, "minimum").v)
  ELSE ""

ClaimedUpper(item) ==
  IF Declared(item, "maximum")
  THEN ToString(IF Truthy(Get(item, "exclusiveMaximum"))
                THEN Get(item, "maximum").v - 1 ELSE Get(item, "maximum").v)
  ELSE ""

\* C7 as stated: the lower bound is minimum + 1 when exclusiveMinimum is
\* truthy and minimum otherwise, the upper bound maximum - 1 when
\* exclusiveMaximum is truthy and maximum otherwise, and the {min..max}
\* suffix is present whenever a bound is declared and absent when none is.
C7_BoundsAsStated ==
  (Walked /\ FlatNumeric(schema)) =>
    /\ result.returned
    /\ Len(result.items) = Len(Get(schema, "properties").v)
    /\ \A i \in 1..Len(result.items) :
         LET name == Get(schema, "properties").v[i][1]
             item == Get(schema, "properties").v[i][2]
         IN HasTypeExpr(result.items[i],
                        Get(item, "type").v \o
                          (IF Declared(item, "minimum") \/ Declared(item, "maximum")
                           THEN "{" \o ClaimedLower(item) \o ".." \o ClaimedUpper(item) \o "}"
                           ELSE ""),
                        name)

\* The bounds with a zero treated as no bound: a declared 0 and a rendered 0.
NonZeroLower(item) ==
  IF Declared(item, "minimum") /\ Get(item, "minimum").v # 0
       /\ Get(item, "minimum").v + (IF Truthy(Get(item, "exclusiveMinimum")) THEN 1 ELSE 0) # 0
  THEN ClaimedLower(item) ELSE ""

NonZeroUpper(item) ==
  IF Declared(item, "maximum") /\ Get(item, "maximum").v # 0
       /\ Get(item, "maximum").v - (IF Truthy(Get(item, "exclusiveMaximum")) THEN 1 ELSE 0) # 0
  THEN ClaimedUpper(item) ELSE ""

\* C7 as amended: a declared non-zero minimum renders as minimum + 1 when
\* exclusiveMinimum is truthy and as minimum otherwise, a declared non-zero
\* maximum as maximum - 1 when exclusiveMaximum is truthy and as maximum
\* otherwise; a bound declared as 0, or whose value to render is 0, renders
\* as no bound; the {min..max} suffix is present exactly when at least one
\* bound renders.
C7_BoundsZeroIsAbsent ==
  (Walked /\ FlatNumeric(schema)) =>
    /\ result.returned
    /\ Len(result.items) = Len(Get(schema, "properties").v)
    /\ \A i \in 1..Len(result.items) :
         LET name == Get(schema, "properties").v[i][1]
             item == Get(schema, "properties").v[i][2]
         IN HasTypeExpr(result.items[i],
                        Get(item, "type").v \o
                          (IF NonZeroLower(item) # "" \/ NonZeroUpper(item) # ""
                           THEN "{" \o NonZeroLower(item) \o ".." \o NonZeroUpper(item) \o "}"
                           ELSE ""),
                        name)

\* A walked number declaring minimum 5 and maximum 10, both exclusive,
\* rendered with the bounds 6 and 9.
C7_Witness ==
  /\ pc = "walked"
  /\ FlatNumeric(schema)
  /\ \E i \in 1..Len(Get(schema, "properties").v) :
       LET item == Get(schema, "properties").v[i][2]
       IN /\ Get(item, "minimum") = Num(5) /\ Truthy(Get(item, "exclusiveMinimum"))
          /\ Get(item, "maximum") = Num(10) /\ Truthy(Get(item, "exclusiveMaximum"))
          /\ i <= Len(result.items)
          /\ result.items[i] = "{number{6..9}} [" \o Get(schema, "properties").v[i][1] \o "] "

\* C8: a root schema with allOf makes extractArgumentsFromSchema throw
\* before any traversal step: its list is empty when it throws and nothing
\* is returned, whatever the root's properties.
C8_AllOfRejectedBeforeTraversal ==
  (pc = "walked" /\ Get(schema, "allOf").t = "array") =>
    /\ result.thrown = "Error"
    /\ result.items = << >>
    /\ ~result.returned

\* A rejected root with allOf whose properties hold leaves to describe.
C8_Witness ==
  /\ pc = "walked"
  /\ Get(schema, "allOf").t = "array"
  /\ Len(LeavesOf(Get(schema, "properties"), 0, Undef)) > 1
  /\ result.thrown = "Error"

(***************************************************************************)
(* SpecFormat: createDocParameter applied to one field.                    *)
(***************************************************************************)

\* The literals an `enum` is made of.
LiteralList == << Str("a"), Str(""), Num(0), Num(1), Bool(FALSE), Bool(TRUE), Null >>

\* The sequences over 1..n of length at most k.
RECURSIVE IndexSeqs(_, _)
IndexSeqs(n, k) ==
  IF k = 0 THEN { << >> }
  ELSE IndexSeqs(n, k - 1) \cup
       { Append(q, i) : q \in { r \in IndexSeqs(n, k - 1) : Len(r) = k - 1 }, i \in 1..n }

EnumOf(q) == Arr([i \in 1..Len(q) |-> LiteralList[q[i]]])

\* The values of `default`.
DefaultList ==
  << Undef, Str("x"), Num(1), Bool(TRUE), Arr(<< >>), Arr(<< Num(1), Str("a"), Null >>),
     Obj(<< <<"k", Num(0)>> >>), Bool(FALSE), Num(0), Str(""), Null >>

\* The values of `enum` the default family uses.
AllowedList ==
  << Undef, Null, Str("x"), EnumOf(<<1, 4>>), Obj(<< >>), Num(1),
     Arr(<< Obj(<< <<"toString", Num(1)>> >>) >>) >>

\* The values of `description`.
DescriptionList == << Undef, Str("d"), Obj(<< <<"k", Num(1)>> >>), Obj(<< <<"toString", Num(1)>> >>) >>

\* A size bound: absent, or an integer of 0..MaxNum.
SizeValue(k) == IF k > MaxNum THEN Undef ELSE Num(k)

InitFormat ==
  /\ pc = "format"
  /\ doc = ""
  /\ \/ \E q \in IndexSeqs(Len(LiteralList), MaxEnumLen), lo \in {1, MaxNum + 1},
           hi \in {MaxNum, MaxNum + 1}, isRequired \in BOOLEAN, d \in 1..2 :
           args = [name |-> "a", type |-> "integer", sizeMin |-> SizeValue(lo),
                   sizeMax |-> SizeValue(hi), allowedValues |-> EnumOf(q),
                   isRequired |-> isRequired, defaultValue |-> DefaultList[d],
                   description |-> Undef]
     \/ \E d \in 1..Len(DefaultList), a \in 1..Len(AllowedList), lo \in 0..(MaxNum + 1),
           hi \in 0..(MaxNum + 1), isRequired \in BOOLEAN, t \in 1..Len(DescriptionList) :
           args = [name |-> "a", type |-> "string", sizeMin |-> SizeValue(lo),
                   sizeMax |-> SizeValue(hi), allowedValues |-> AllowedList[a],
                   isRequired |-> isRequired, defaultValue |-> DefaultList[d],
                   description |-> DescriptionList[t]]
  /\ IdleWalk
  /\ IdleHook

\* The call returns its descriptor, or throws and returns nothing.
Format ==
  /\ pc = "format"
  /\ LET r == createDocParameter(args.name, args.type, args.sizeMin, args.sizeMax,
                                 args.allowedValues, args.isRequired, args.defaultValue,
                                 args.description)
     IN /\ doc' = r.v
        /\ thrown' = IF r.thrown THEN "TypeError" ELSE "none"
  /\ pc' = "formatted"
  /\ UNCHANGED <<args, schema, result, elements, element, cwd, curDir, attempts>>

NextFormat == Format

SpecFormat == InitFormat /\ [][NextFormat]_vars

\* C5: in the descriptor returned, a sequence of literals given as allowedValues suffixes the type
\* expression with ="v1,v2,..." holding every literal of the sequence in
\* order, a single string with ="value", and the size-range suffix comes
\* before it.
C5_EveryAllowedValueListed ==
  (pc = "formatted" /\ thrown = "none" /\ args.allowedValues.t \in {"array", "string"}) =>
    doc = "{" \o args.type \o SizeSuffix(args.sizeMin, args.sizeMax).v
              \o "=\"" \o (IF args.allowedValues.t = "string" THEN args.allowedValues.v
                           ELSE JoinComma(args.allowedValues.v).v) \o "\""
              \o "} " \o NameExpr(args.name, args.isRequired, args.defaultValue)
              \o " " \o OrEmpty(args.description).v

\* The descriptor with a given name segment.
WithNameSegment(segment) ==
  "{" \o TypeExpr(args.type, args.sizeMin, args.sizeMax, args.allowedValues).v \o "} "
      \o segment \o " " \o OrEmpty(args.description).v

NameWithLiteral ==
  IF args.isRequired
  THEN args.name \o "=" \o JSONStringify(args.defaultValue)
  ELSE "[" \o args.name \o "=" \o JSONStringify(args.defaultValue) \o "]"

PlainName == IF args.isRequired THEN args.name ELSE "[" \o args.name \o "]"

\* C6 as stated: in the descriptor returned, whenever the field has a default, the name segment is
\* name=<json>, wrapped in [...] as a whole when the field is not required;
\* with no default it is name or [name].
C6_DefaultAlwaysRendered ==
  (pc = "formatted" /\ thrown = "none") =>
    doc = WithNameSegment(IF args.defaultValue.t # "undefined" THEN NameWithLiteral
                          ELSE PlainName)

\* C6 as amended: in the descriptor returned, whenever the field has a truthy default (any default but
\* false, 0, "" and null), the name segment is name=<json>, wrapped in [...]
\* as a whole when the field is not required; with no default, or with a
\* falsy one, it is name or [name].
C6_TruthyDefaultRendered ==
  (pc = "formatted" /\ thrown = "none") =>
    doc = WithNameSegment(IF Truthy(args.defaultValue) THEN NameWithLiteral ELSE PlainName)

\* A field that is not required and has the default "x", formatted.
C6_Witness ==
  /\ pc = "formatted"
  /\ args.defaultValue = Str("x")
  /\ ~args.isRequired
  /\ args.allowedValues.t = "undefined"
  /\ args.sizeMin.t = "undefined" /\ args.sizeMax.t = "undefined"
  /\ doc = "{string} [a=\"x\"] d"

(***************************************************************************)
(* Texts matched by the hook: sequences of one-character strings.          *)
(***************************************************************************)
Text(chars) == JoinWith(chars, "")

\* String.prototype.trim for texts whose only white space is the blank.
RECURSIVE TrimLeft(_), TrimRight(_)
TrimLeft(c) == IF Len(c) > 0 /\ c[1] = " " THEN TrimLeft(Tail(c)) ELSE c
TrimRight(c) == IF Len(c) > 0 /\ c[Len(c)] = " " THEN TrimRight(SubSeq(c, 1, Len(c) - 1)) ELSE c
Trim(c) == TrimRight(TrimLeft(c))

Min(S) == CHOOSE x \in S : \A y \in S : x <= y
Max(S) == CHOOSE x \in S : \A y \in S : x >= y

\* /{(.+)}(.+)/.exec(content) of line 187: the leftmost "{" that a later
\* "}" closes with a character between them and one after it; both groups
\* are greedy, so the "}" is the last one that leaves a character after it.
\* The result is [matched, type, schemaPath] (line 188).
ElementParts(content) ==
  LET closes(i) == {j \in (i + 2)..(Len(content) - 1) : content[j] = "}"}
      opens == {i \in 1..Len(content) : content[i] = "{" /\ closes(i) # {}}
  IN IF opens = {} THEN [matched |-> FALSE, type |-> << >>, schemaPath |-> << >>]
     ELSE LET i == Min(opens)
              j == Max(closes(i))
          IN [matched |-> TRUE, type |-> SubSeq(content, i + 1, j - 1),
              schemaPath |-> SubSeq(content, j + 1, Len(content))]

\* /\((.+)\).+{/.exec(content) of line 190: the leftmost "(" closed by a
\* ")" with a character between them, at least one character after the
\* ")" and then a "{"; the group is greedy.  The result is [matched, groupName].
RegParts(content) ==
  LET closes(i) == {j \in (i + 2)..Len(content) :
                      /\ content[j] = ")"
                      /\ \E k \in (j + 2)..Len(content) : content[k] = "{"}
      opens == {i \in 1..Len(content) : content[i] = "(" /\ closes(i) # {}}
  IN IF opens = {} THEN [matched |-> FALSE, groupName |-> << >>]
     ELSE LET i == Min(opens)
              j == Max(closes(i))
          IN [matched |-> TRUE, groupName |-> SubSeq(content, i + 1, j - 1)]

\* line 8
TYPE_NAME == <<"s", "c", "h", "e", "m", "a">>

\* line 10
shouldDescribeElements == {"apiParam", "apiSuccess"}

\* __dirname: the directory of the plugin
PluginDir == <<"/", "p">>

RECURSIVE Segments(_)
\* The segments of a path: the texts between its "/" characters.
Segments(p) ==
  LET slashes == {i \in 1..Len(p) : p[i] = "/"}
      first == Min(slashes)
  IN IF slashes = {} THEN << p >>
     ELSE << SubSeq(p, 1, first - 1) >> \o Segments(SubSeq(p, first + 1, Len(p)))

RECURSIVE Normalize(_, _)
\* The segments an absolute path keeps: empty and "." segments are
\* dropped, a ".." segment drops the segment kept before it.
Normalize(segs, kept) ==
  IF Len(segs) = 0 THEN kept
  ELSE LET seg == Head(segs)
       IN Normalize(Tail(segs),
                    CASE seg = << >> \/ seg = <<".">> -> kept
                      [] seg = <<".", ".">> ->
                           (IF Len(kept) = 0 THEN kept ELSE SubSeq(kept, 1, Len(kept) - 1))
                      [] OTHER -> Append(kept, seg))

RECURSIVE Rooted(_)
\* The segments, each after a "/".
Rooted(segs) == IF Len(segs) = 0 THEN << >> ELSE <<"/">> \o Head(segs) \o Rooted(Tail(segs))

\* path.resolve(__dirname, p): p itself when it is absolute, p below
\* __dirname otherwise, normalised and without a trailing "/"
Resolve(p) ==
  LET joined == IF Len(p) > 0 /\ p[1] = "/" THEN p ELSE PluginDir \o <<"/">> \o p
      kept == Normalize(Segments(joined), << >>)
  IN IF Len(kept) = 0 THEN <<"/">> ELSE Rooted(kept)

\* path.dirname of an absolute path with a directory
DirName(p) ==
  LET slashes == {i \in 1..Len(p) : p[i] = "/"}
  IN IF slashes = {} THEN <<".">>
     ELSE IF Max(slashes) = 1 THEN <<"/">> ELSE SubSeq(p, 1, Max(slashes) - 1)

\* path.extname: from the last "." of the last segment, when that "." is
\* not the segment's first character
ExtName(p) ==
  LET slashes == {i \in 1..Len(p) : p[i] = "/"}
      start == IF slashes = {} THEN 1 ELSE Max(slashes) + 1
      dots == {i \in (start + 1)..Len(p) : p[i] = "."}
  IN IF dots = {} THEN << >> ELSE SubSeq(p, Max(dots), Len(p))

(***************************************************************************)
(* The files of the run.  `refs` says what the files a schema refers to    *)
(* are: "none" (it refers to no file), "found" (they are found from the    *)
(* directory refDir only), "gone" (found from nowhere), "bad" (found from  *)
(* anywhere, but unreadable), "foundbad" (found from refDir only, and      *)
(* unreadable).                                                            *)
(***************************************************************************)
WorkDir == "/w"

SampleProperties ==
  Obj(<< <<"a", Leaf("string")>>,
         <<"bb", ObjectNode(Obj(<< <<"b", Leaf("boolean")>> >>), StrArr(<<"b">>))>> >>)

FileSystem ==
  << [path |-> "/p/s.json", refs |-> "none", refDir |-> "",
      schema |-> RootSchema(SampleProperties, StrArr(<<"a">>), Undef)],
     [path |-> "/p/d/r.yaml", refs |-> "found", refDir |-> "/p/d",
      schema |-> RootSchema(SampleProperties, Undef, Undef)],
     [path |-> "/p/d/c.yml", refs |-> "found", refDir |-> WorkDir,
      schema |-> RootSchema(Obj(<< <<"id", Leaf("integer")>> >>), Undef, Undef)],
     [path |-> "/p/d/g.json", refs |-> "gone", refDir |-> "",
      schema |-> RootSchema(SampleProperties, Undef, Undef)],
     [path |-> "/p/b.js", refs |-> "bad", refDir |-> "",
      schema |-> RootSchema(SampleProperties, Undef, Undef)],
     [path |-> "/p/d/e.json", refs |-> "foundbad", refDir |-> "/p/d",
      schema |-> RootSchema(SampleProperties, Undef, Undef)],
     [path |-> "/p/t.txt", refs |-> "none", refDir |-> "",
      schema |-> RootSchema(SampleProperties, Undef, Undef)],
     [path |-> "/p/l.json", refs |-> "none", refDir |-> "",
      schema |-> Obj(<< <<"type", Str("array")>> >>)],
     [path |-> "/p/d/l.json", refs |-> "found", refDir |-> "/p/d",
      schema |-> Obj(<< <<"type", Str("string")>> >>)],
     [path |-> "/p/x.json", refs |-> "none", refDir |-> "",
      schema |-> RootSchema(SampleProperties, Undef, Arr(<< Leaf("object") >>))],
     [path |-> "/p/n.json", refs |-> "none", refDir |-> "",
      schema |-> RootSchema(Undef, Undef, Undef)] >>

\* The directories of the run: those that hold the files, and the
\* directory apidoc is run from.
Directories == {"/", "/p", "/p/d", WorkDir}

\* fs.existsSync(realPath), line 31: a file or a directory is there
ExistsSync(realPath) ==
  LET name == Text(realPath)
  IN \/ \E i \in 1..Len(FileSystem) : FileSystem[i].path = name
     \/ name \in Directories

FileAt(realPath) ==
  LET name == Text(realPath)
  IN FileSystem[CHOOSE i \in 1..Len(FileSystem) : FileSystem[i].path = name]

\* lines 35-46: the extensions the switch loads
SupportedExt(realPath) ==
  Text(ExtName(realPath)) \in {".yaml", ".yml", ".json", ".js"}

\* loadSchemaReferences (lines 13-23) with the process in directory `dir`:
\* "ok", "ENOENT" when a referred file is not found from there, "EOTHER"
\* for any other error of the dereference.
loadSchemaReferences(file, dir) ==
  CASE file.refs = "none" -> "ok"
    [] file.refs = "found" -> (IF dir = file.refDir THEN "ok" ELSE "ENOENT")
    [] file.refs = "gone" -> "ENOENT"
    [] file.refs = "foundbad" -> (IF dir = file.refDir THEN "EOTHER" ELSE "ENOENT")
    [] OTHER -> "EOTHER"

(***************************************************************************)
(* parserSchemaElements (src/index.js:184-209) and safeLoadSchema          *)
(* (src/index.js:29-67).  apidoc appends the element it found to the       *)
(* block's elements and calls the hook with both.  The hook runs to its    *)
(* end without yielding, except while loadSchemaReferences spins the event *)
(* loop (line 20): pc is "resolve1" or "resolve2" while the first or the   *)
(* second dereference is under way, "idle" once the hook has returned and  *)
(* "failed" once it has thrown.  attempts lists the working directory of   *)
(* each dereference started.                                               *)
(***************************************************************************)

\* line 30
RealPath(el) == Resolve(Trim(ElementParts(el.content).schemaPath))

\* lines 185-189: the element is one the hook expands
IsSchemaElement(el) ==
  /\ el.sourceName \in shouldDescribeElements
  /\ ElementParts(el.content).matched
  /\ ElementParts(el.content).type = TYPE_NAME

\* elements.pop(), line 192
Pop(els) == IF Len(els) = 0 THEN els ELSE SubSeq(els, 1, Len(els) - 1)

\* lines 196-197: the clone of the element for one descriptor
ClonedElement(el, content) ==
  [el EXCEPT !.content = IF RegParts(el.content).matched
                         THEN "(" \o Text(RegParts(el.content).groupName) \o ") " \o content
                         ELSE content]

\* lines 63-66 and 194: the call of extractArgumentsFromSchema that
\* follows a successful dereference of an object schema; no call, and the
\* result `res` of before, for any other schema
Extracted(sch, res) ==
  IF IsStr(Get(sch, "type"), "object") THEN extractArgumentsFromSchema(sch) ELSE res

\* lines 63-66 and 194-200: what follows a successful dereference, r
\* being what extractArgumentsFromSchema gave
AfterLoad(els, el, sch, r) ==
  IF ~IsStr(Get(sch, "type"), "object")
  THEN [pc |-> "failed", thrown |-> "expecting object on top of schema", elements |-> els]
  ELSE IF r.thrown # "none"
       THEN [pc |-> "failed", thrown |-> r.thrown, elements |-> els]
       ELSE [pc |-> "idle", thrown |-> "none",
             elements |-> els \o [i \in 1..Len(r.items) |-> ClonedElement(el, r.items[i])]]

\* lines 57-61 with the finally block dropped: the directory is restored
\* only when the second dereference succeeds
DirAfterRetryNoFinally(outcome, dir, saved) == IF outcome = "ok" THEN saved ELSE dir

\* lines 57-61: the directory the process is in after the second
\* dereference, whatever its outcome
DirAfterRetry(outcome, dir, saved) == saved

\* A tag: "(group)", the text after it, "{type}", a blank and the path.
Tag(group, gap, type, schemaPath) ==
  (IF Len(group) > 0 THEN <<"(">> \o group \o <<")">> \o gap ELSE << >>)
    \o <<"{">> \o type \o <<"}">> \o <<" ">> \o schemaPath

GroupSet == { << >>, <<"g">>, <<"g", "r">> }
GapSet == { <<" ">>, << >> }
TypeSet == { TYPE_NAME, <<"S", "t", "r">> }
PathSet ==
  { <<"s", ".", "j", "s", "o", "n">>,
    <<"/", "p", "/", "s", ".", "j", "s", "o", "n", " ">>,
    <<"d", "/", "r", ".", "y", "a", "m", "l">>,
    <<"d", "/", "c", ".", "y", "m", "l">>,
    <<"d", "/", "g", ".", "j", "s", "o", "n">>,
    <<"b", ".", "j", "s">>,
    <<"d", "/", "e", ".", "j", "s", "o", "n">>,
    <<"t", ".", "t", "x", "t">>,
    <<"l", ".", "j", "s", "o", "n">>,
    <<"d", "/", "l", ".", "j", "s", "o", "n">>,
    <<"x", ".", "j", "s", "o", "n">>,
    <<"n", ".", "j", "s", "o", "n">>,
    <<"m", ".", "j", "s", "o", "n">>,
    << >>,
    <<"d">>,
    <<"d", "/">>,
    <<"d", "/", "/", "r", ".", "y", "a", "m", "l">>,
    <<".", "/", "s", ".", "j", "s", "o", "n">>,
    <<"d", "/", ".", ".", "/", "b", ".", "j", "s">> }

\* The elements found earlier in the block.
EarlierList ==
  << << >>,
     << [sourceName |-> "apiName", content |-> <<"G", "e", "t">>] >>,
     << [sourceName |-> "apiParam", content |-> "{string} [a] "],
        [sourceName |-> "apiParam", content |-> <<"{", "S", "t", "r", "}", " ", "i", "d">>] >> >>

InitHook ==
  /\ pc = "hook"
  /\ \E sourceName \in {"apiParam", "apiSuccess", "apiParamExample"},
        group \in GroupSet, gap \in GapSet, type \in TypeSet, schemaPath \in PathSet :
        element = [sourceName |-> sourceName, content |-> Tag(group, gap, type, schemaPath)]
  /\ \E e \in 1..Len(EarlierList) : elements = Append(EarlierList[e], element)
  /\ cwd \in {WorkDir, "/p/d"}
  /\ curDir = ""
  /\ attempts = << >>
  /\ thrown = "none"
  /\ IdleFormat
  /\ IdleWalk

\* lines 185-47: from the call of the hook to the first dereference
HookEnter ==
  /\ pc = "hook"
  /\ IF ~IsSchemaElement(element)
     THEN /\ pc' = "idle"
          /\ UNCHANGED <<elements, schema, attempts, thrown>>
     ELSE /\ elements' = Pop(elements)
          /\ LET realPath == RealPath(element)
             IN IF ~ExistsSync(realPath)
                THEN /\ pc' = "failed"
                     /\ thrown' = "file not exists"
                     /\ UNCHANGED <<schema, attempts>>
                ELSE IF ~SupportedExt(realPath)
                THEN /\ pc' = "failed"
                     /\ thrown' = "file type not supported"
                     /\ UNCHANGED <<schema, attempts>>
                ELSE /\ pc' = "resolve1"
                     /\ schema' = FileAt(realPath).schema
                     /\ attempts' = <<cwd>>
                     /\ UNCHANGED thrown
  /\ UNCHANGED <<args, doc, result, element, cwd, curDir>>

\* lines 51-56 and 63-66, 194-200: the first dereference ends
Resolved1 ==
  /\ pc = "resolve1"
  /\ LET realPath == RealPath(element)
         outcome == loadSchemaReferences(FileAt(realPath), cwd)
         schemaDir == Text(DirName(realPath))
         after == AfterLoad(elements, element, schema, result')
     IN CASE outcome = "ok" ->
               /\ result' = Extracted(schema, result)
               /\ pc' = after.pc
               /\ thrown' = after.thrown
               /\ elements' = after.elements
               /\ UNCHANGED <<cwd, curDir, attempts>>
          [] outcome = "ENOENT" ->
               /\ curDir' = cwd
               /\ cwd' = schemaDir
               /\ attempts' = Append(attempts, schemaDir)
               /\ pc' = "resolve2"
               /\ UNCHANGED <<thrown, elements, result>>
          [] OTHER ->
               /\ pc' = "failed"
               /\ thrown' = outcome
               /\ UNCHANGED <<cwd, curDir, attempts, elements, result>>
  /\ UNCHANGED <<args, doc, schema, element>>

\* lines 57-66, 194-200: the second dereference ends
Resolved2 ==
  /\ pc = "resolve2"
  /\ LET outcome == loadSchemaReferences(FileAt(RealPath(element)), cwd)
         after == AfterLoad(elements, element, schema, result')
     IN /\ cwd' = DirAfterRetry(outcome, cwd, curDir)
        /\ IF outcome = "ok"
           THEN /\ result' = Extracted(schema, result)
                /\ pc' = after.pc
                /\ thrown' = after.thrown
                /\ elements' = after.elements
           ELSE /\ pc' = "failed"
                /\ thrown' = outcome
                /\ UNCHANGED <<elements, result>>
  /\ UNCHANGED <<args, doc, schema, element, curDir, attempts>>

NextHook == HookEnter \/ Resolved1 \/ Resolved2

SpecHook == InitHook /\ [][NextHook]_vars

\* The tag an element's content was written as: its group (empty when it
\* has none) and its declared type.
TagOf(el) ==
  CHOOSE tag \in [group : GroupSet, gap : GapSet, type : TypeSet, schemaPath : PathSet] :
    Tag(tag.group, tag.gap, tag.type, tag.schemaPath) = el.content

DeclaresSchema(el) ==
  el.sourceName \in {"apiParam", "apiSuccess"} /\ TagOf(el).type = TYPE_NAME

\* The clones the claims expect for an element and the descriptors of its schema.
GroupedClones(el, descriptors) ==
  [i \in 1..Len(descriptors) |->
     [sourceName |-> el.sourceName,
      content |-> IF Len(TagOf(el).group) > 0
                  THEN "(" \o Text(TagOf(el).group) \o ") " \o descriptors[i]
                  ELSE descriptors[i]]]

\* C9: the hook leaves the elements untouched for an element whose
\* sourceName is not apiParam or apiSuccess or whose declared type is not
\* `schema`; for a {schema} element it removes that element, the last of
\* the list, and when it returns it has appended, in descriptor order, one
\* clone per descriptor of the resolved schema, whose content is "(group) "
\* and the descriptor when a (group) precedes the type and the descriptor
\* alone otherwise; the earlier elements stay as they are.
C9_ElementReplacedByDescriptors ==
  [][/\ (pc = "hook" /\ ~DeclaresSchema(element)) =>
          (pc' = "idle" /\ elements' = elements)
     /\ (pc = "hook" /\ DeclaresSchema(element)) =>
          (elements = Append(elements', element))
     /\ (pc = "resolve1" /\ pc' = "resolve2") => elements' = elements
     /\ (pc \in {"resolve1", "resolve2"} /\ pc' = "idle") =>
          elements' = elements \o GroupedClones(element, extractArgumentsFromSchema(schema).items)
    ]_vars

\* C9 for tags that have a character between the group and the type, or
\* no group: the statement above, kept to those tags.
C9_HoldsWithSeparatedGroup ==
  [][/\ (pc = "hook" /\ ~DeclaresSchema(element)) =>
          (pc' = "idle" /\ elements' = elements)
     /\ (pc = "hook" /\ DeclaresSchema(element)) =>
          (elements = Append(elements', element))
     /\ (pc = "resolve1" /\ pc' = "resolve2") => elements' = elements
     /\ (pc \in {"resolve1", "resolve2"} /\ pc' = "idle"
           /\ (Len(TagOf(element).group) = 0 \/ Len(TagOf(element).gap) > 0)) =>
          elements' = elements \o GroupedClones(element, extractArgumentsFromSchema(schema).items)
    ]_vars

\* C10: safeLoadSchema starts at most two dereferences; the second starts
\* only when the first failed with ENOENT, and runs with the process in the
\* schema file's directory; any other failure of the first is thrown
\* without a retry; and the working directory changes only for the time of
\* the second dereference: when it ends, with a schema or with an error,
\* the process is back in the directory it was in before the call.
C10_RetryOnceAndRestore ==
  [][/\ Len(attempts') <= 2
     /\ Len(attempts') = 2 =>
          /\ attempts'[2] = Text(DirName(RealPath(element)))
          /\ loadSchemaReferences(FileAt(RealPath(element)), attempts'[1]) = "ENOENT"
     /\ pc' = "resolve2" =>
          /\ pc = "resolve1"
          /\ Len(attempts') = 2
          /\ cwd' = attempts'[2]
          /\ curDir' = cwd
     /\ (pc = "resolve1"
           /\ loadSchemaReferences(FileAt(RealPath(element)), cwd) = "EOTHER") =>
          (pc' = "failed" /\ thrown' = "EOTHER" /\ attempts' = attempts)
     /\ (pc # "resolve2" /\ pc' # "resolve2") => cwd' = cwd
     /\ pc = "resolve2" => (pc' \in {"idle", "failed"} /\ cwd' = curDir /\ attempts' = attempts)
    ]_vars

\* The second dereference, started from the schema's directory after an
\* ENOENT, has thrown, and the process is back where the call found it.
C10_Witness ==
  /\ pc = "failed"
  /\ Len(attempts) = 2
  /\ thrown \in {"ENOENT", "EOTHER"}
  /\ cwd = attempts[1]
  /\ cwd # attempts[2]

====
